---- MODULE Spec2Model ----
(***************************************************************************)
(* The two decorative runtime loops of the portfolio page:                 *)
(*   - generateParticles and the Constellation frame callback of the       *)
(*     React page (src/unnamed/part_000), and                              *)
(*   - the custom-cursor follower of the static page script                *)
(*     (src/unnamed/part_001).                                             *)
(* The components share no data, so a behaviour follows one of them; the   *)
(* variable scene says which.  Real numbers are integers in a fixed unit   *)
(* chosen so that every product with 0.05, 0.03, 0.5, 0.2 and 15 is exact. *)
(***************************************************************************)
EXTENDS Integers, Sequences, FiniteSets, TLC

VARIABLES
    scene,            \* which component this behaviour follows
    \* generateParticles(count)
    count, i, positions, colors, genPc,
    \* Portfolio / Constellation
    mouse,            \* Portfolio's mouse.current
    fieldPc,          \* "rendered" | "live" (useFrame subscribed) | "destroyed"
    pointsReady,      \* points.current is set
    clock,            \* state.clock.getElapsedTime(), seconds
    rot,              \* points.current.rotation, <<x, y>>
    \* cursor follower script
    cursorPc,         \* "parsed" | "loaded" | "aborted"
    hasDot, hasOutline,
    mouseX, mouseY, outlineX, outlineY,
    dotLeft, dotTop, outlineLeft, outlineTop,
    outlineTransform, outlineBg, dotTransform,
    moveListener, hoverListeners,
    rafPending,       \* animation-frame requests not yet delivered
    frames,           \* executions of animateCursor so far
    inside,           \* registered elements the pointer is inside
    hoverRun,         \* mouseenter events since the last mouseleave
    cursorRemoved,    \* the cursor elements were removed from the document
    \* both
    lastMove,         \* <<clientX, clientY>> of the latest handled pointer-move
    err               \* "none" or the uncaught exception raised so far

genVars == <<count, i, positions, colors, genPc>>
fieldVars == <<mouse, fieldPc, pointsReady, clock, rot>>
posVars == <<mouseX, mouseY, outlineX, outlineY>>
styleVars == <<dotLeft, dotTop, outlineLeft, outlineTop,
               outlineTransform, outlineBg, dotTransform>>
cursorVars == <<cursorPc, hasDot, hasOutline, posVars, styleVars,
                moveListener, hoverListeners, rafPending, frames,
                inside, hoverRun, cursorRemoved>>
vars == <<scene, genVars, fieldVars, cursorVars, lastMove, err>>

----------------------------------------------------------------------------
(* Bounds of the model *)

MaxCount == 2        \* generateParticles is called with 0..MaxCount
ViewW == 2           \* window.innerWidth; clientX ranges over 0..ViewW
ViewH == 2           \* window.innerHeight; clientY ranges over 0..ViewH
MaxTime == 2         \* the clock is read as 0..MaxTime seconds
MaxTicks == 3        \* animation frames delivered to animateCursor
MaxCoordIdx == 1     \* cursor page: client coordinates 100 * (0..MaxCoordIdx)
NumElements == 2     \* registered interactive elements

Scenes == {"generateParticles", "Portfolio", "cursor"}

----------------------------------------------------------------------------
(* Numbers *)

\* x * (num / den), for a decimal literal num/den of the source.
Times(x, num, den) == (x * num) \div den

RECURSIVE Pow2(_)
Pow2(n) == IF n = 0 THEN 1 ELSE 2 * Pow2(n - 1)

\* generateParticles: 1.0 in the unit of positions and colours.
GUnit == 255 * 100
\* Portfolio: 1.0 in the unit of mouse.current and of the rotation.
FUnit == 2000 * ViewW * ViewH
\* cursor: 1px in the unit of mouseX, mouseY, outlineX, outlineY.
SubPx == Pow2(MaxTicks)

----------------------------------------------------------------------------
(* generateParticles, part_000 lines 61-85 *)

\* Math.random(): a value in [0, 1); the least one and one just below 1.
Randoms == {0, GUnit - 10}

\* One channel of new THREE.Color('#rrggbb'): byte / 255.
HexChannel(byte) == (byte * GUnit) \div 255

\* colorObj = new THREE.Color(COLORS.primary), COLORS.primary = '#00ff41'.
colorObj == [r |-> HexChannel(0), g |-> HexChannel(255), b |-> HexChannel(65)]

\* new Float32Array(n): n zeros.
Float32Array(n) == [k \in 1..n |-> 0]

\* (Math.random() - 0.5) * 16: a cube of half-width 8.
ParticleCoordWide(r) == (r - Times(GUnit, 5, 10)) * 16

\* (Math.random() - 0.5) * 15
ParticleCoord(r) == (r - Times(GUnit, 5, 10)) * 15

\* colorObj.g + (Math.random() * 0.2)
ParticleGreen(r) == colorObj.g + Times(r, 2, 10)

\* colorObj.b + (Math.random() * 0.5)
ParticleBlue(r) == colorObj.b + Times(r, 5, 10)

\* One iteration of the for loop (lines 74-83); index k of the source's
\* arrays is index k + 1 here.
GenLoop ==
    /\ scene = "generateParticles"
    /\ genPc = "loop"
    /\ i < count
    /\ \E rx \in Randoms, ry \in Randoms, rz \in Randoms,
          rg \in Randoms, rb \in Randoms :
          /\ positions' = [positions EXCEPT ![i * 3 + 1] = ParticleCoord(rx),
                                            ![i * 3 + 2] = ParticleCoord(ry),
                                            ![i * 3 + 3] = ParticleCoord(rz)]
          /\ colors' = [colors EXCEPT ![i * 3 + 1] = colorObj.r,
                                      ![i * 3 + 2] = ParticleGreen(rg),
                                      ![i * 3 + 3] = ParticleBlue(rb)]
    /\ i' = i + 1
    /\ UNCHANGED <<scene, count, genPc, fieldVars, cursorVars, lastMove, err>>

\* The loop ends and the two arrays are returned (line 84).
GenReturn ==
    /\ scene = "generateParticles"
    /\ genPc = "loop"
    /\ ~(i < count)
    /\ genPc' = "done"
    /\ UNCHANGED <<scene, count, i, positions, colors,
                   fieldVars, cursorVars, lastMove, err>>

----------------------------------------------------------------------------
(* Portfolio and Constellation, part_000 lines 91-110 and 331-347 *)

\* useRef<number[]>() with no initial value: mouse.current is undefined.
InitMouseUnset == <<>>

\* useRef<number[]>([0, 0]) (line 331)
InitMouse == <<0, 0>>

\* (e.clientX / window.innerWidth) * 2, without the - 1.
NormXUncentred(clientX) == ((clientX * FUnit) \div ViewW) * 2

\* (e.clientX / window.innerWidth) * 2 - 1
NormX(clientX) == ((clientX * FUnit) \div ViewW) * 2 - FUnit

\* -(e.clientY / window.innerHeight) * 2 + 1
NormY(clientY) == -((clientY * FUnit) \div ViewH) * 2 + FUnit

\* handleMouseMove (lines 342-347): the ref is overwritten with a new pair.
handleMouseMove(clientX, clientY) ==
    /\ scene = "Portfolio"
    /\ mouse' = <<NormX(clientX), NormY(clientY)>>
    /\ lastMove' = <<clientX, clientY>>
    /\ UNCHANGED <<scene, genVars, fieldPc, pointsReady, clock, rot,
                   cursorVars, err>>

\* React commits <points ref={points}> (line 113): points.current is set.
AttachRef ==
    /\ scene = "Portfolio"
    /\ fieldPc # "destroyed"
    /\ ~pointsReady
    /\ pointsReady' = TRUE
    /\ UNCHANGED <<scene, genVars, mouse, fieldPc, clock, rot,
                   cursorVars, lastMove, err>>

\* useFrame (line 96) subscribes the callback to the render loop.
Subscribe ==
    /\ scene = "Portfolio"
    /\ fieldPc = "rendered"
    /\ fieldPc' = "live"
    /\ UNCHANGED <<scene, genVars, mouse, pointsReady, clock, rot,
                   cursorVars, lastMove, err>>

\* Constellation is unmounted: React clears the ref and useFrame's effect
\* cleanup removes the callback from the render loop.
Unmount ==
    /\ scene = "Portfolio"
    /\ fieldPc = "live"
    /\ fieldPc' = "destroyed"
    /\ pointsReady' = FALSE
    /\ UNCHANGED <<scene, genVars, mouse, clock, rot,
                   cursorVars, lastMove, err>>

\* time * 0.05 and time * 0.03 (lines 101-102), time in whole seconds.
AutoX(time) == Times(time * FUnit, 5, 100)
AutoY(time) == Times(time * FUnit, 3, 100)

\* cur += (target - cur) * 0.05 (lines 108-109)
Damp(cur, target) == cur + Times(target - cur, 5, 100)

\* A frame that blends the rotation the previous frame left toward the sum
\* of the autonomous angle and the pointer target.
FrameRotationSmoothed(time, m) ==
    <<Damp(rot[1], AutoX(time) + Times(m[2], 5, 10)),
      Damp(rot[2], AutoY(time) + Times(m[1], 5, 10))>>

\* The rotation a frame leaves (lines 101-109): each axis is first set to the
\* autonomous angle and then moved toward the pointer target.
FrameRotation(time, m) ==
    <<Damp(AutoX(time), Times(m[2], 5, 10)), Damp(AutoY(time), Times(m[1], 5, 10))>>

\* The frame callback (lines 96-110), run by the render loop with the clock
\* reading time.
useFrame(time) ==
    /\ scene = "Portfolio"
    /\ fieldPc = "live"
    /\ time >= clock
    /\ clock' = time
    /\ IF ~pointsReady
         THEN UNCHANGED <<rot, err>>                             \* line 97
         ELSE IF mouse = <<>>
           THEN /\ rot' = <<AutoX(time), AutoY(time)>>           \* lines 101-102
                /\ err' = "TypeError"                            \* line 105
           ELSE /\ rot' = FrameRotation(time, mouse)
                /\ UNCHANGED err
    /\ UNCHANGED <<scene, genVars, mouse, fieldPc, pointsReady,
                   cursorVars, lastMove>>

----------------------------------------------------------------------------
(* Cursor follower, part_001 lines 1-49 *)

\* Client coordinates of the pointer events of the cursor page, in px.
Coords == {100 * k : k \in 0..MaxCoordIdx}

\* The elements of querySelectorAll('a, button, .project-card') (line 35).
Elements == 1..NumElements

\* The registered element an element is nested in, 0 for none: an even
\* element is a link inside the card before it.
Parent(el) == IF el % 2 = 0 THEN el - 1 ELSE 0

\* `${n}px`
Px(n) == <<n, "px">>

\* 'translate(-50%, -50%) scale(s)', s in hundredths.
Transform(s) == <<"translate(-50%, -50%)", s>>

\* The scale an inline transform gives; no inline transform scales by 1.
ScaleOf(transform) == IF transform = <<>> THEN 100 ELSE transform[2]

Translucent == "rgba(255, 255, 255, 0.1)"

\* cur += (target - cur) * 0.15, the speed before it was raised.
EaseSlow(cur, target) == cur + Times(target - cur, 15, 100)

\* cur += (target - cur) * 1.5: the eased position passes the target.
EaseOvershoot(cur, target) == cur + Times(target - cur, 15, 10)

\* cur += (target - cur) * speed, speed = 0.5 (lines 22-25)
Ease(cur, target) == cur + Times(target - cur, 5, 10)

\* The body of animateCursor up to line 28: the eased position moves, then is
\* written to the outline, which raises when the element is missing.
AnimateBody ==
    /\ outlineX' = Ease(outlineX, mouseX)
    /\ outlineY' = Ease(outlineY, mouseY)
    /\ frames' = frames + 1
    /\ IF hasOutline
         THEN /\ outlineLeft' = Px(outlineX')
              /\ outlineTop' = Px(outlineY')
         ELSE UNCHANGED <<outlineLeft, outlineTop>>

\* The DOMContentLoaded handler (lines 1-49): the mousemove listener, the
\* first call of animateCursor, then the hover listeners.  An exception in
\* animateCursor ends the handler.
DOMContentLoaded ==
    /\ scene = "cursor"
    /\ cursorPc = "parsed"
    /\ moveListener' = TRUE
    /\ AnimateBody
    /\ IF hasOutline
         THEN /\ rafPending' = rafPending + 1
              /\ hoverListeners' = TRUE
              /\ cursorPc' = "loaded"
              /\ UNCHANGED err
         ELSE /\ cursorPc' = "aborted"
              /\ err' = "TypeError"
              /\ UNCHANGED <<rafPending, hoverListeners>>
    /\ UNCHANGED <<scene, genVars, fieldVars, hasDot, hasOutline, mouseX, mouseY,
                   dotLeft, dotTop, outlineTransform, outlineBg, dotTransform,
                   inside, hoverRun, cursorRemoved, lastMove>>

\* A mousemove listener that records the raw position and leaves the dot to
\* the frame loop.
mousemoveDeferred(clientX, clientY) ==
    /\ scene = "cursor"
    /\ moveListener
    /\ mouseX' = clientX * SubPx
    /\ mouseY' = clientY * SubPx
    /\ lastMove' = <<clientX, clientY>>
    /\ UNCHANGED <<scene, genVars, fieldVars, cursorPc, hasDot, hasOutline,
                   outlineX, outlineY, styleVars,
                   moveListener, hoverListeners, rafPending, frames,
                   inside, hoverRun, cursorRemoved, err>>

\* A mousemove listener that also snaps the eased position to the pointer.
mousemoveSnapping(clientX, clientY) ==
    /\ scene = "cursor"
    /\ moveListener
    /\ mouseX' = clientX * SubPx
    /\ mouseY' = clientY * SubPx
    /\ outlineX' = mouseX'
    /\ outlineY' = mouseY'
    /\ lastMove' = <<clientX, clientY>>
    /\ dotLeft' = Px(mouseX')
    /\ dotTop' = Px(mouseY')
    /\ UNCHANGED <<scene, genVars, fieldVars, cursorPc, hasDot, hasOutline,
                   outlineLeft, outlineTop,
                   outlineTransform, outlineBg, dotTransform,
                   moveListener, hoverListeners, rafPending, frames,
                   inside, hoverRun, cursorRemoved, err>>

\* The mousemove listener (lines 11-18).
mousemove(clientX, clientY) ==
    /\ scene = "cursor"
    /\ moveListener
    /\ mouseX' = clientX * SubPx
    /\ mouseY' = clientY * SubPx
    /\ lastMove' = <<clientX, clientY>>
    /\ IF hasDot
         THEN /\ dotLeft' = Px(mouseX')
              /\ dotTop' = Px(mouseY')
              /\ UNCHANGED err
         ELSE /\ err' = "TypeError"
              /\ UNCHANGED <<dotLeft, dotTop>>
    /\ UNCHANGED <<scene, genVars, fieldVars, cursorPc, hasDot, hasOutline,
                   outlineX, outlineY, outlineLeft, outlineTop,
                   outlineTransform, outlineBg, dotTransform,
                   moveListener, hoverListeners, rafPending, frames,
                   inside, hoverRun, cursorRemoved>>

\* An animateCursor that does not request the next frame.
animateCursorOnce ==
    /\ scene = "cursor"
    /\ rafPending > 0
    /\ frames <= MaxTicks
    /\ AnimateBody
    /\ rafPending' = rafPending - 1
    /\ UNCHANGED <<scene, genVars, fieldVars, cursorPc, hasDot, hasOutline,
                   mouseX, mouseY, dotLeft, dotTop,
                   outlineTransform, outlineBg, dotTransform,
                   moveListener, hoverListeners,
                   inside, hoverRun, cursorRemoved, lastMove, err>>

\* animateCursor run as an animation-frame callback (lines 21-31): the
\* pending request is consumed and, at line 30, the next one is made.
animateCursor ==
    /\ scene = "cursor"
    /\ rafPending > 0
    /\ frames <= MaxTicks
    /\ AnimateBody
    /\ IF hasOutline
         THEN UNCHANGED <<rafPending, err>>
         ELSE /\ rafPending' = rafPending - 1
              /\ err' = "TypeError"
    /\ UNCHANGED <<scene, genVars, fieldVars, cursorPc, hasDot, hasOutline,
                   mouseX, mouseY, dotLeft, dotTop,
                   outlineTransform, outlineBg, dotTransform,
                   moveListener, hoverListeners,
                   inside, hoverRun, cursorRemoved, lastMove>>

\* A mouseenter handler that multiplies the current scale.
mouseenterCumulative(el) ==
    /\ scene = "cursor"
    /\ hoverListeners
    /\ el \notin inside
    /\ Parent(el) = 0 \/ Parent(el) \in inside
    /\ inside' = inside \cup {el}
    /\ hoverRun' = hoverRun + 1
    /\ outlineTransform' = Transform(Times(ScaleOf(outlineTransform), 15, 10))
    /\ outlineBg' = Translucent
    /\ dotTransform' = Transform(Times(ScaleOf(dotTransform), 5, 10))
    /\ UNCHANGED <<scene, genVars, fieldVars, cursorPc, hasDot, hasOutline,
                   posVars, dotLeft, dotTop, outlineLeft, outlineTop,
                   moveListener, hoverListeners, rafPending, frames,
                   cursorRemoved, lastMove, err>>

\* The mouseenter listener of a registered element (lines 38-42).  The
\* browser delivers it when the pointer comes inside the element, an outer
\* element before the elements nested in it.
mouseenter(el) ==
    /\ scene = "cursor"
    /\ hoverListeners
    /\ el \notin inside
    /\ Parent(el) = 0 \/ Parent(el) \in inside
    /\ inside' = inside \cup {el}
    /\ hoverRun' = hoverRun + 1
    /\ IF hasOutline
         THEN /\ outlineTransform' = Transform(150)
              /\ outlineBg' = Translucent
              /\ IF hasDot
                   THEN dotTransform' = Transform(50) /\ UNCHANGED err
                   ELSE err' = "TypeError" /\ UNCHANGED dotTransform
         ELSE /\ err' = "TypeError"
              /\ UNCHANGED <<outlineTransform, outlineBg, dotTransform>>
    /\ UNCHANGED <<scene, genVars, fieldVars, cursorPc, hasDot, hasOutline,
                   posVars, dotLeft, dotTop, outlineLeft, outlineTop,
                   moveListener, hoverListeners, rafPending, frames,
                   cursorRemoved, lastMove>>

\* The mouseleave listener of a registered element (lines 44-48), delivered
\* when the pointer leaves the element, a nested element before its parent.
mouseleave(el) ==
    /\ scene = "cursor"
    /\ hoverListeners
    /\ el \in inside
    /\ \A inner \in inside : Parent(inner) # el
    /\ inside' = inside \ {el}
    /\ hoverRun' = 0
    /\ IF hasOutline
         THEN /\ outlineTransform' = Transform(100)
              /\ outlineBg' = "transparent"
              /\ IF hasDot
                   THEN dotTransform' = Transform(100) /\ UNCHANGED err
                   ELSE err' = "TypeError" /\ UNCHANGED dotTransform
         ELSE /\ err' = "TypeError"
              /\ UNCHANGED <<outlineTransform, outlineBg, dotTransform>>
    /\ UNCHANGED <<scene, genVars, fieldVars, cursorPc, hasDot, hasOutline,
                   posVars, dotLeft, dotTop, outlineLeft, outlineTop,
                   moveListener, hoverListeners, rafPending, frames,
                   cursorRemoved, lastMove>>

\* The cursor elements are removed from the document.  The script has no
\* handler for it: its listeners and its pending frame request stay.
RemoveCursor ==
    /\ scene = "cursor"
    /\ cursorPc = "loaded"
    /\ ~cursorRemoved
    /\ cursorRemoved' = TRUE
    /\ UNCHANGED <<scene, genVars, fieldVars, cursorPc, hasDot, hasOutline,
                   posVars, styleVars, moveListener, hoverListeners,
                   rafPending, frames, inside, hoverRun, lastMove, err>>

----------------------------------------------------------------------------
(* Specifications *)

\* The state after construction, but for which cursor elements the document
\* holds.
InitCommon ==
    /\ scene \in Scenes
    /\ count \in (IF scene = "generateParticles" THEN 0..MaxCount ELSE {0})
    /\ i = 0
    /\ positions = Float32Array(count * 3)
    /\ colors = Float32Array(count * 3)
    /\ genPc = "loop"
    /\ mouse = InitMouse
    /\ fieldPc = "rendered"
    /\ pointsReady = FALSE
    /\ clock = 0
    /\ rot = <<0, 0>>
    /\ cursorPc = "parsed"
    /\ mouseX = 0 /\ mouseY = 0 /\ outlineX = 0 /\ outlineY = 0
    /\ dotLeft = <<>> /\ dotTop = <<>>
    /\ outlineLeft = <<>> /\ outlineTop = <<>>
    /\ outlineTransform = <<>> /\ outlineBg = "" /\ dotTransform = <<>>
    /\ moveListener = FALSE /\ hoverListeners = FALSE
    /\ rafPending = 0
    /\ frames = 0
    /\ inside = {}
    /\ hoverRun = 0
    /\ cursorRemoved = FALSE
    /\ lastMove = <<>>
    /\ err = "none"

\* The document holds #cursor-dot and #cursor-outline (lines 3-4).
Init ==
    /\ InitCommon
    /\ hasDot = TRUE
    /\ hasOutline = TRUE

\* The document may lack either element: getElementById returns null.
InitAnyDom ==
    /\ InitCommon
    /\ hasDot \in (IF scene = "cursor" THEN BOOLEAN ELSE {TRUE})
    /\ hasOutline \in (IF scene = "cursor" THEN BOOLEAN ELSE {TRUE})

Next ==
    \/ GenLoop
    \/ GenReturn
    \/ \E clientX \in 0..ViewW, clientY \in 0..ViewH : handleMouseMove(clientX, clientY)
    \/ AttachRef
    \/ Subscribe
    \/ Unmount
    \/ \E time \in 0..MaxTime : useFrame(time)
    \/ DOMContentLoaded
    \/ \E clientX \in Coords, clientY \in Coords : mousemove(clientX, clientY)
    \/ animateCursor
    \/ \E el \in Elements : mouseenter(el)
    \/ \E el \in Elements : mouseleave(el)
    \/ RemoveCursor

Spec == Init /\ [][Next]_vars

SpecAnyDom == InitAnyDom /\ [][Next]_vars

\* The browser delivers a pending animation-frame request at the next
\* display refresh: a requested animateCursor is not postponed forever.
SpecFair == Spec /\ WF_vars(animateCursor)

\* The user stops moving the pointer: no mousemove is delivered once the
\* first animation frame has run.
NextQuiet ==
    \/ GenLoop
    \/ GenReturn
    \/ \E clientX \in 0..ViewW, clientY \in 0..ViewH : handleMouseMove(clientX, clientY)
    \/ AttachRef
    \/ Subscribe
    \/ Unmount
    \/ \E time \in 0..MaxTime : useFrame(time)
    \/ DOMContentLoaded
    \/ /\ frames <= 1
       /\ \E clientX \in Coords, clientY \in Coords : mousemove(clientX, clientY)
    \/ animateCursor
    \/ \E el \in Elements : mouseenter(el)
    \/ \E el \in Elements : mouseleave(el)
    \/ RemoveCursor

SpecQuiet == Init /\ [][NextQuiet]_vars /\ WF_vars(animateCursor)

----------------------------------------------------------------------------
(* Claims *)

\* 7.5, the half-width of the cube, in the unit of the positions.
HalfWidth == Times(GUnit, 75, 10)

FrameRan == pointsReady /\ \E time \in 0..MaxTime : useFrame(time)

\* C2: on every frame the rotation follows
\* rotation' = rotation + (target - rotation) * 0.05 from the rotation the
\* previous frame left, the target being the pointer target of the frame.
RotationRecurrence ==
    [][FrameRan =>
         /\ (rot'[1] - rot[1]) * 100 = (Times(mouse[2], 5, 10) - rot[1]) * 5
         /\ (rot'[2] - rot[2]) * 100 = (Times(mouse[1], 5, 10) - rot[2]) * 5]_vars

\* C3: on every execution of animateCursor each eased coordinate moves half
\* of the way to the raw coordinate; from 0 with raw 100 it lands on 50, and
\* from 50 on 75.
CursorEasingRecurrence ==
    [][frames' # frames =>
         /\ (outlineX' - outlineX) * 2 = mouseX - outlineX
         /\ (outlineY' - outlineY) * 2 = mouseY - outlineY
         /\ (mouseX = 100 * SubPx /\ outlineX = 0) => outlineX' = 50 * SubPx
         /\ (mouseX = 100 * SubPx /\ outlineX = 50 * SubPx) => outlineX' = 75 * SubPx
         /\ (mouseY = 100 * SubPx /\ outlineY = 0) => outlineY' = 50 * SubPx
         /\ (mouseY = 100 * SubPx /\ outlineY = 50 * SubPx) => outlineY' = 75 * SubPx]_vars

\* C3 witness: raw is (100, 100) and two frames after the first call the
\* eased position is (75, 75).
CursorEasingWitness ==
    /\ frames = 3
    /\ mouseX = 100 * SubPx /\ mouseY = 100 * SubPx
    /\ outlineX = 75 * SubPx /\ outlineY = 75 * SubPx

NoFrameAfterTeardown ==
    [][/\ cursorRemoved => frames' = frames
       /\ fieldPc = "destroyed" => (rot' = rot /\ clock' = clock)]_vars

\* C6: the pointer state is a pair of numbers from the start, and no
\* interleaving of pointer-move events and frames raises an exception.
PointerStateDefined ==
    /\ Len(mouse) = 2
    /\ mouse[1] \in Int /\ mouse[2] \in Int
    /\ mouseX \in Int /\ mouseY \in Int
    /\ err = "none"

\* C6 witness: a frame at a time after 0 ran before any pointer-move, on the
\* initial pointer state.
FrameBeforeMoveWitness ==
    /\ scene = "Portfolio"
    /\ lastMove = <<>>
    /\ pointsReady
    /\ clock > 0
    /\ rot = FrameRotation(clock, <<0, 0>>)
    /\ err = "none"

\* C7: a callback whose render handle is missing changes nothing that
\* handle shows and raises no exception, for points.current and for the
\* cursor's dot and outline elements.
MissingHandleIsNoOp ==
    [][/\ (scene = "Portfolio" /\ ~pointsReady) => (rot' = rot /\ err' = "none")
       /\ (scene = "cursor" /\ ~hasOutline) =>
             (outlineX' = outlineX /\ outlineY' = outlineY /\ err' = "none")
       /\ (scene = "cursor" /\ ~hasDot) => err' = "none"]_vars

\* C8: each frame the rotation is blended from the rendered rotation toward
\* the sum of the autonomous rotation (0.05 t, 0.03 t) and half the pointer
\* state, covering 0.05 of the distance.  The rendered rotation is read
\* either as the one the previous frame left or as the autonomous one.
BlendTowardSummedTarget ==
    [][FrameRan =>
         \E from \in {rot, <<AutoX(clock'), AutoY(clock')>>} :
            /\ (rot'[1] - from[1]) * 100 =
                  (AutoX(clock') + Times(mouse[2], 5, 10) - from[1]) * 5
            /\ (rot'[2] - from[2]) * 100 =
                  (AutoY(clock') + Times(mouse[1], 5, 10) - from[2]) * 5]_vars

\* C9: mouse.current is a pair within [-1, 1] on both axes: (0, 0) before
\* any pointer-move and afterwards (2 clientX / innerWidth - 1,
\* 1 - 2 clientY / innerHeight) of the latest event.
PointerNormalized ==
    /\ Len(mouse) = 2
    /\ \A k \in 1..2 : -FUnit <= mouse[k] /\ mouse[k] <= FUnit
    /\ (scene = "Portfolio" /\ lastMove = <<>>) => mouse = <<0, 0>>
    /\ (scene = "Portfolio" /\ lastMove # <<>>) =>
          /\ ViewW * (mouse[1] + FUnit) = 2 * lastMove[1] * FUnit
          /\ ViewH * (FUnit - mouse[2]) = 2 * lastMove[2] * FUnit

\* C9 witness: the pointer is at the top right corner of the viewport and a
\* frame has used it.
PointerCornerWitness ==
    /\ scene = "Portfolio"
    /\ lastMove = <<ViewW, 0>>
    /\ mouse = <<FUnit, FUnit>>
    /\ rot = FrameRotation(clock, mouse)
    /\ clock > 0

\* C10: once a pointer-move has been handled, the raw position and the dot's
\* left/top are the coordinates of the latest pointer-move.
ZeroLagDot ==
    (scene = "cursor" /\ lastMove # <<>>) =>
        /\ mouseX = lastMove[1] * SubPx
        /\ mouseY = lastMove[2] * SubPx
        /\ dotLeft = <<lastMove[1] * SubPx, "px">>
        /\ dotTop = <<lastMove[2] * SubPx, "px">>

\* C10 witness: frames and a hover have run since the latest pointer-move,
\* and the outline still lags the dot.
ZeroLagDotWitness ==
    /\ scene = "cursor"
    /\ lastMove = <<100, 0>>
    /\ frames >= 3
    /\ hoverRun >= 1
    /\ outlineX # mouseX
    /\ dotLeft = <<100 * SubPx, "px">>

\* C11: a frame (of Constellation or of the cursor) leaves the pointer state
\* it reads unchanged, and a pointer-move leaves the eased position and the
\* rotation unchanged; the pointer state changes only in a pointer-move, the
\* eased position only in an execution of animateCursor, and the rotation
\* only in a frame run on a subscribed callback with its handle present.
SingleWriterSingleReader ==
    [][/\ frames' # frames => (mouseX' = mouseX /\ mouseY' = mouseY)
       /\ (clock' # clock \/ rot' # rot) => mouse' = mouse
       /\ lastMove' # lastMove =>
             (outlineX' = outlineX /\ outlineY' = outlineY /\ rot' = rot)
       /\ (mouse' # mouse \/ mouseX' # mouseX \/ mouseY' # mouseY) =>
             lastMove' # lastMove
       /\ (outlineX' # outlineX \/ outlineY' # outlineY) => frames' # frames
       /\ rot' # rot => (fieldPc = "live" /\ pointsReady /\ lastMove' = lastMove)]_vars

\* C11 witness: the cursor's pointer-moves and frames have both run, and the
\* eased position is between its start and the raw position.
SingleWriterWitness ==
    /\ scene = "cursor"
    /\ frames = 2
    /\ lastMove = <<100, 100>>
    /\ outlineX = 50 * SubPx
    /\ outlineY = 50 * SubPx

FieldFrameStep ==
    /\ scene = "Portfolio"
    /\ fieldPc = "live"
    /\ pointsReady /\ pointsReady'
    /\ mouse' = mouse
    /\ clock' # clock \/ rot' # rot

\* C13: the rotation a frame leaves depends only on the frame's elapsed time
\* t and on the pointer state (mx, my), not on the rotation before it:
\* x = 0.05 t + (0.5 my - 0.05 t) * 0.05 and
\* y = 0.03 t + (0.5 mx - 0.03 t) * 0.05, that is 2000 x = 95 t + 50 my and
\* 2000 y = 57 t + 50 mx.
RotationIsFunctionOfFrame ==
    [][FieldFrameStep =>
         /\ 2000 * rot'[1] = 95 * clock' * FUnit + 50 * mouse[2]
         /\ 2000 * rot'[2] = 57 * clock' * FUnit + 50 * mouse[1]]_vars

\* C13 witness: a frame at the latest time ran on a pointer in the bottom
\* left corner and left the rotation the two formulas give.
RotationFunctionWitness ==
    /\ scene = "Portfolio"
    /\ pointsReady
    /\ clock = MaxTime
    /\ lastMove = <<0, ViewH>>
    /\ 2000 * rot[1] = 95 * clock * FUnit + 50 * (-FUnit)
    /\ 2000 * rot[2] = 57 * clock * FUnit + 50 * (-FUnit)

Abs(x) == IF x < 0 THEN -x ELSE x

\* b lies between a and c, ends included.
Between(a, b, c) == (a <= b /\ b <= c) \/ (c <= b /\ b <= a)

\* The eased position is within d (in the unit of the positions) of the raw
\* position on both axes.
EasedWithin(d) == Abs(mouseX - outlineX) <= d /\ Abs(mouseY - outlineY) <= d

\* The largest distance, in px, between two pointer positions of the model.
MaxDistPx == 100 * MaxCoordIdx

HoveredStyling ==
    /\ ScaleOf(outlineTransform) = 150
    /\ outlineBg = Translucent
    /\ ScaleOf(dotTransform) = 50

\* The default styling: scale 1 and a transparent (or no inline) fill.
DefaultStyling ==
    /\ ScaleOf(outlineTransform) = 100
    /\ outlineBg \in {"", "transparent"}
    /\ ScaleOf(dotTransform) = 100

\* C15: whenever the pointer is inside at least one registered element,
\* nested ones included, the cursor shows the hovered styling, and it shows
\* the default styling only when the pointer is inside none.
HoverStylingMatchesInside ==
    /\ inside # {} => HoveredStyling
    /\ DefaultStyling => inside = {}

====
